---- MODULE Spec2Model ----
(***************************************************************************)
(* Model of scripts/convert.py (sd-webui-model-converter): the checkpoint  *)
(* pipeline do_convert = validate -> registry lookup -> begin -> load_model *)
(* -> fix_model -> per-key selection/conversion -> save per format -> end.  *)
(*                                                                         *)
(* Python strings are sequences of one-character strings, so that          *)
(* startswith, slicing (k[6:]), replace and the substring test are         *)
(* computed character by character.  A dictionary key is a record          *)
(* [isstr, s]: isstr = FALSE stands for a key that is not a str (an int).  *)
(* A dictionary value is a record [tensor, dtype, data]; tensor = FALSE    *)
(* stands for a non-tensor payload.  Tensor elements are fixed-point       *)
(* numbers counted in halves (11 is 5.5), non-negative; a tensor is a flat  *)
(* list of elements, and the position ids have the 77 elements of shape    *)
(* [1, 77].  No two keys of a checkpoint have the same repaired name, so    *)
(* the order in which fix_model visits the keys does not show.             *)
(***************************************************************************)
EXTENDS Integers, Sequences, FiniteSets, TLC

\* Largest number of entries of a checkpoint's weight mapping.
MaxKeys == 2

-----------------------------------------------------------------------------
(* Text *)

StartsWith(s, p) ==
  /\ Len(s) >= Len(p)
  /\ SubSeq(s, 1, Len(p)) = p

Contains(s, p) ==
  \E i \in 1..(Len(s) - Len(p) + 1) : SubSeq(s, i, i + Len(p) - 1) = p

RECURSIVE Replace(_, _, _)
Replace(s, old, new) ==
  IF Len(s) = 0 THEN << >>
  ELSE IF StartsWith(s, old)
       THEN new \o Replace(SubSeq(s, Len(old) + 1, Len(s)), old, new)
       ELSE << Head(s) >> \o Replace(Tail(s), old, new)

RemoveDots(s) == SelectSeq(s, LAMBDA c : c # ".")

SliceFrom6(s) == SubSeq(s, 7, Len(s))

StrKey(s) == [isstr |-> TRUE, s |-> s]

IntKey(n) == [isstr |-> FALSE, s |-> << n >>]

S_model_ema == <<"m","o","d","e","l","_","e","m","a",".">>
S_sentinel == <<"_","_","_">>
S_unet == <<"m","o","d","e","l",".","d","i","f","f","u","s","i","o","n","_","m","o","d","e","l">>
S_vae == <<"f","i","r","s","t","_","s","t","a","g","e","_","m","o","d","e","l">>
S_clip == <<"c","o","n","d","_","s","t","a","g","e","_","m","o","d","e","l">>
S_num_updates == S_model_ema \o <<"n","u","m","_","u","p","d","a","t","e","s">>
S_decay == S_model_ema \o <<"d","e","c","a","y">>
S_transformer == S_clip \o <<".","t","r","a","n","s","f","o","r","m","e","r",".">>
S_text_model == S_transformer \o <<"t","e","x","t","_","m","o","d","e","l",".">>
S_embeddings == <<"e","m","b","e","d","d","i","n","g","s",".">>
S_encoder == <<"e","n","c","o","d","e","r",".">>
S_final_layer_norm == <<"f","i","n","a","l","_","l","a","y","e","r","_","n","o","r","m",".">>
S_position_ids == <<"p","o","s","i","t","i","o","n","_","i","d","s">>

-----------------------------------------------------------------------------
(* Tensors and the precision table *)

PosLen == 77

Float16Bits == 11

BFloat16Bits == 8

DTypes == {"float32", "float64", "float16", "bfloat16", "int64", "int32", "uint8"}

Tensor(dtype, data) == [tensor |-> TRUE, dtype |-> dtype, data |-> data]

NonTensor(n) == [tensor |-> FALSE, dtype |-> "python", data |-> << n >>]

RECURSIVE Pow2(_)
Pow2(n) == IF n = 0 THEN 1 ELSE 2 * Pow2(n - 1)

RECURSIVE ExpFor(_, _)
ExpFor(v, bits) == IF v < Pow2(bits) THEN 0 ELSE 1 + ExpFor(v \div 2, bits)

RoundSig(v, bits) ==
  LET q == Pow2(ExpFor(v, bits))
      lo == (v \div q) * q
      rem == v - lo
  IN  IF 2 * rem < q THEN lo
      ELSE IF 2 * rem > q THEN lo + q
      ELSE IF (lo \div q) % 2 = 0 THEN lo ELSE lo + q

Half(t) ==
  Tensor("float16", [i \in DOMAIN t.data |-> RoundSig(t.data[i], Float16Bits)])

BFloat16(t) ==
  Tensor("bfloat16", [i \in DOMAIN t.data |-> RoundSig(t.data[i], BFloat16Bits)])

ToInt64(t) ==
  Tensor("int64", [i \in DOMAIN t.data |-> (t.data[i] \div 2) * 2])

dtypes_to_fp16 == {"float32", "float64", "bfloat16"}

dtypes_to_bf16 == {"float32", "float64", "float16"}

\* Faulty variant of conv_fp16: the cast without the dtype test.
conv_fp16_always(t) == Half(t)

conv_fp16(t) == IF t.dtype \in dtypes_to_fp16 THEN Half(t) ELSE t

conv_bf16(t) == IF t.dtype \in dtypes_to_bf16 THEN BFloat16(t) ELSE t

conv_full(t) == t

Precisions == {"full", "fp32", "fp16", "bf16"}

_g_precision_func(precision, t) ==
  CASE precision = "full" -> conv_full(t)
    [] precision = "fp32" -> conv_full(t)
    [] precision = "fp16" -> conv_fp16(t)
    [] precision = "bf16" -> conv_bf16(t)

check_weight_type(k) ==
  IF StartsWith(k.s, S_unet) THEN "unet"
  ELSE IF StartsWith(k.s, S_vae) THEN "vae"
  ELSE IF StartsWith(k.s, S_clip) THEN "clip"
  ELSE "other"

-----------------------------------------------------------------------------
(* Dictionaries *)

EmptyDict == [k \in {} |-> k]

Put(m, k, v) == [x \in (DOMAIN m) \cup {k} |-> IF x = k THEN v ELSE m[x]]

Del(m, k) == [x \in (DOMAIN m) \ {k} |-> m[x]]

-----------------------------------------------------------------------------
(* State of one call of do_convert *)

VARIABLES
  pc,                 \* the statement of do_convert that runs next
  model,              \* argument: the selected model identifier
  checkpoint_formats, \* argument: the list of requested formats
  precision,          \* argument
  conv_type,          \* argument: the pruning mode
  extra_opt,          \* the per-subsystem directive table built from the arguments
  fix_clip,           \* argument
  force_position_id,  \* argument
  file,               \* the checkpoint file of the selected model
  state_dict,         \* the loaded weight mapping, mutated by fix_model
  report,             \* what fix_model printed about the position ids
  broken,             \* the indices fix_model printed as broken
  ok,                 \* the output weight mapping
  fmt_i,              \* position of the save loop in checkpoint_formats
  saved,              \* the files written, by extension
  output,             \* the paths reported so far
  result,             \* the string returned to the host
  io                  \* the calls made to collaborators and to the file system

vars ==
  << pc, model, checkpoint_formats, precision, conv_type, extra_opt, fix_clip,
     force_position_id, file, state_dict, report, broken, ok, fmt_i, saved,
     output, result, io >>

Subsystems == {"unet", "vae", "clip", "other"}

Directives == {"convert", "copy", "delete"}

ConvTypes == {"disabled", "no-ema", "ema-only"}

ErrNoModel == "Error: you must choose a model"

Saved == "Checkpoint saved"

ErrNoFormat == "Error: at least choose one model save format"

-----------------------------------------------------------------------------
(* fix_model *)

position_id_key == StrKey(S_text_model \o S_embeddings \o S_position_ids)

nai_keys ==
  << << S_transformer \o S_embeddings, S_text_model \o S_embeddings >>,
     << S_transformer \o S_encoder, S_text_model \o S_encoder >>,
     << S_transformer \o S_final_layer_norm, S_text_model \o S_final_layer_norm >> >>

IsBrokenKey(k) ==
  /\ k.isstr
  /\ \E i \in DOMAIN nai_keys : StartsWith(k.s, nai_keys[i][1])

NewKey(k) ==
  LET i == CHOOSE j \in DOMAIN nai_keys :
             /\ StartsWith(k.s, nai_keys[j][1])
             /\ \A h \in 1..(j - 1) : ~StartsWith(k.s, nai_keys[h][1])
  IN  StrKey(Replace(k.s, nai_keys[i][1], nai_keys[i][2]))

\* Faulty variant of FixKey: the old key is not deleted.
FixKeyNoDel(m, k) ==
  IF IsBrokenKey(k) THEN Put(m, NewKey(k), m[k]) ELSE m

FixKey(m, k) ==
  IF IsBrokenKey(k) THEN Del(Put(m, NewKey(k), m[k]), k) ELSE m

RECURSIVE FixKeys(_, _)
FixKeys(m, todo) ==
  IF todo = {} THEN m
  ELSE LET k == CHOOSE x \in todo : TRUE
       IN  FixKeys(FixKey(m, k), todo \ {k})

ForcePositionId(m, force) ==
  IF force /\ position_id_key \in DOMAIN m
  THEN Put(m, position_id_key, ToInt64(m[position_id_key]))
  ELSE m

Correct == Tensor("int64", [i \in 1..PosLen |-> 2 * (i - 1)])

\* Faulty variant of BrokenIndices: the values are compared without the int64 cast.
BrokenIndicesNoCast(t) ==
  {i \in 0..(PosLen - 1) : Correct.data[i + 1] # t.data[i + 1]}

BrokenIndices(t) ==
  LET now == ToInt64(t)
  IN  {i \in 0..(PosLen - 1) : Correct.data[i + 1] # now.data[i + 1]}

FixClip(m, fix) ==
  IF fix /\ position_id_key \in DOMAIN m
       /\ BrokenIndices(m[position_id_key]) # {}
  THEN Put(m, position_id_key, Correct)
  ELSE m

FixReport(m, fix) ==
  IF fix /\ position_id_key \in DOMAIN m
  THEN IF BrokenIndices(m[position_id_key]) # {} THEN "fixed" ELSE "fine"
  ELSE "none"

FixModelRaises(m, fix, force) ==
  /\ fix \/ force
  /\ position_id_key \in DOMAIN m
  /\ ~m[position_id_key].tensor

FixModel ==
  /\ pc = "fix"
  /\ LET renamed == FixKeys(state_dict, DOMAIN state_dict)
         forced == ForcePositionId(renamed, force_position_id)
     IN  IF FixModelRaises(renamed, fix_clip, force_position_id)
         THEN /\ pc' = "raised"
              /\ state_dict' = renamed
              /\ UNCHANGED << report, broken >>
         ELSE /\ pc' = "convert"
              /\ state_dict' = FixClip(forced, fix_clip)
              /\ report' = FixReport(forced, fix_clip)
              /\ broken' = IF fix_clip /\ position_id_key \in DOMAIN forced
                           THEN BrokenIndices(forced[position_id_key])
                           ELSE {}
  /\ UNCHANGED << model, checkpoint_formats, precision, conv_type, extra_opt,
                  fix_clip, force_position_id, file, ok, fmt_i, saved, output,
                  result, io >>

-----------------------------------------------------------------------------
(* do_convert: selection and conversion of the keys *)

\* Faulty variant of _hf: a value that is no tensor is stored as it is.
_hf_keeps_non_tensor(wk, t) ==
  IF ~t.tensor THEN {t}
  ELSE LET conv_t == extra_opt[check_weight_type(wk)]
       IN  CASE conv_t = "convert" -> {_g_precision_func(precision, t)}
             [] conv_t = "copy" -> {t}
             [] conv_t = "delete" -> {}

\* Faulty variant of _hf: "delete" falls through to the copy.
_hf_delete_copies(wk, t) ==
  IF ~t.tensor THEN {}
  ELSE LET conv_t == extra_opt[check_weight_type(wk)]
       IN  CASE conv_t = "convert" -> {_g_precision_func(precision, t)}
             [] conv_t = "copy" -> {t}
             [] conv_t = "delete" -> {t}

\* _hf(wk, t): the values stored under ok[wk], none or one.
_hf(wk, t) ==
  IF ~t.tensor THEN {}
  ELSE LET conv_t == extra_opt[check_weight_type(wk)]
       IN  CASE conv_t = "convert" -> {_g_precision_func(precision, t)}
             [] conv_t = "copy" -> {t}
             [] conv_t = "delete" -> {}

\* check_weight_type(wk) calls wk.startswith, which a key that is no str lacks.
HfRaises(wk, t) == t.tensor /\ ~wk.isstr

\* Faulty variant of EmaKey: the six-character prefix is not stripped.
EmaKeyNoSlice(k) ==
  IF k.isstr
  THEN StrKey(S_model_ema \o RemoveDots(k.s))
  ELSE StrKey(S_sentinel)

\* ema_k: the slice or the replace fails on a key that is no str, the except
\* clause keeps "___".
EmaKey(k) ==
  IF k.isstr
  THEN StrKey(S_model_ema \o RemoveDots(SliceFrom6(k.s)))
  ELSE StrKey(S_sentinel)

\* Faulty variant of IsEmaKey: equality instead of the prefix test.
IsEmaKeyExact(k) == k.s = S_model_ema

IsEmaKey(k) == StartsWith(k.s, S_model_ema)

KeptEmaKeys == {S_num_updates, S_decay}

\* The argument t of the call _hf(k, t) the loop makes for key k, none or one.
Selected(sd, k) ==
  CASE conv_type = "ema-only" ->
         IF EmaKey(k) \in DOMAIN sd THEN {sd[EmaKey(k)]}
         ELSE IF ~k.isstr THEN {}
         ELSE IF ~IsEmaKey(k) \/ k.s \in KeptEmaKeys THEN {sd[k]}
         ELSE {}
    [] conv_type = "no-ema" ->
         IF ~k.isstr THEN {}
         ELSE IF ~Contains(k.s, S_model_ema) THEN {sd[k]}
         ELSE {}
    [] OTHER -> {sd[k]}

\* The loop body raises on key k: k.startswith (ema-only) and
\* "model_ema." in k (no-ema) fail on a key that is no str, and so does _hf.
KeyRaises(sd, k) ==
  \/ /\ conv_type = "ema-only"
     /\ EmaKey(k) \notin DOMAIN sd
     /\ ~k.isstr
  \/ /\ conv_type = "no-ema"
     /\ ~k.isstr
  \/ \E t \in Selected(sd, k) : HfRaises(k, t)

KeyOut(sd, k) == UNION {_hf(k, t) : t \in Selected(sd, k)}

Converted(sd) ==
  [k \in {x \in DOMAIN sd : KeyOut(sd, x) # {}} |->
     CHOOSE v \in KeyOut(sd, k) : TRUE]

Convert ==
  /\ pc = "convert"
  /\ IF \E k \in DOMAIN state_dict : KeyRaises(state_dict, k)
     THEN /\ pc' = "raised"
          /\ UNCHANGED << ok, fmt_i >>
     ELSE /\ pc' = "save"
          /\ ok' = Converted(state_dict)
          /\ fmt_i' = 1
  /\ UNCHANGED << model, checkpoint_formats, precision, conv_type, extra_opt,
                  fix_clip, force_position_id, file, state_dict, report, broken,
                  saved, output, result, io >>

-----------------------------------------------------------------------------
(* do_convert: the statements around the conversion *)

checkpoints_list == {"sd-v1"}

\* Faulty variant of Validate: the formats are checked before the model identifier.
ValidateFormatsFirst ==
  /\ pc = "validate"
  /\ IF Len(checkpoint_formats) = 0
     THEN pc' = "returned" /\ result' = ErrNoFormat
     ELSE IF model = ""
          THEN pc' = "returned" /\ result' = ErrNoModel
          ELSE pc' = "lookup" /\ UNCHANGED result
  /\ UNCHANGED << model, checkpoint_formats, precision, conv_type, extra_opt,
                  fix_clip, force_position_id, file, state_dict, report, broken,
                  ok, fmt_i, saved, output, io >>

Validate ==
  /\ pc = "validate"
  /\ IF model = ""
     THEN pc' = "returned" /\ result' = ErrNoModel
     ELSE IF Len(checkpoint_formats) = 0
          THEN pc' = "returned" /\ result' = ErrNoFormat
          ELSE pc' = "lookup" /\ UNCHANGED result
  /\ UNCHANGED << model, checkpoint_formats, precision, conv_type, extra_opt,
                  fix_clip, force_position_id, file, state_dict, report, broken,
                  ok, fmt_i, saved, output, io >>

Lookup ==
  /\ pc = "lookup"
  /\ io' = Append(io, "registry")
  /\ pc' = IF model \in checkpoints_list THEN "begin" ELSE "raised"
  /\ UNCHANGED << model, checkpoint_formats, precision, conv_type, extra_opt,
                  fix_clip, force_position_id, file, state_dict, report, broken,
                  ok, fmt_i, saved, output, result >>

Begin ==
  /\ pc = "begin"
  /\ io' = Append(io, "begin")
  /\ pc' = "load"
  /\ UNCHANGED << model, checkpoint_formats, precision, conv_type, extra_opt,
                  fix_clip, force_position_id, file, state_dict, report, broken,
                  ok, fmt_i, saved, output, result >>

\* m["state_dict"] if "state_dict" in m else m
StateDictOf(f) == IF f.wrapped THEN f.inner ELSE f.top

load_model ==
  /\ pc = "load"
  /\ io' = Append(io, "load")
  /\ IF file.readable
     THEN pc' = "fix" /\ state_dict' = StateDictOf(file)
     ELSE pc' = "raised" /\ UNCHANGED state_dict
  /\ UNCHANGED << model, checkpoint_formats, precision, conv_type, extra_opt,
                  fix_clip, force_position_id, file, report, broken, ok, fmt_i,
                  saved, output, result >>

Ext(fmt) == IF fmt = "safetensors" THEN ".safetensors" ELSE ".ckpt"

SaveEvent(fmt) == IF fmt = "safetensors" THEN "save.safetensors" ELSE "save.ckpt"

Payload(fmt, m) == [wrapped |-> fmt # "safetensors", sd |-> m]

Save ==
  /\ pc = "save"
  /\ fmt_i <= Len(checkpoint_formats)
  /\ LET fmt == checkpoint_formats[fmt_i]
     IN  /\ io' = Append(io, "save" \o Ext(fmt))
         /\ \E written \in BOOLEAN :
              IF written
              THEN /\ saved' = Put(saved, Ext(fmt), Payload(fmt, ok))
                   /\ output' = Append(output, Ext(fmt))
                   /\ fmt_i' = fmt_i + 1
                   /\ pc' = "save"
              ELSE /\ pc' = "raised"
                   /\ UNCHANGED << saved, output, fmt_i >>
  /\ UNCHANGED << model, checkpoint_formats, precision, conv_type, extra_opt,
                  fix_clip, force_position_id, file, state_dict, report, broken,
                  ok, result >>

End ==
  /\ pc = "save"
  /\ fmt_i > Len(checkpoint_formats)
  /\ io' = Append(io, "end")
  /\ result' = Saved
  /\ pc' = "returned"
  /\ UNCHANGED << model, checkpoint_formats, precision, conv_type, extra_opt,
                  fix_clip, force_position_id, file, state_dict, report, broken,
                  ok, fmt_i, saved, output >>

-----------------------------------------------------------------------------
(* Checkpoints the runs are given *)

K_unet == StrKey(S_unet \o <<".","w">>)

K_unet_ema == StrKey(S_model_ema \o <<"d","i","f","f","u","s","i","o","n","_","m","o","d","e","l","w">>)

K_vae == StrKey(S_vae \o <<".","w">>)

K_num_updates == StrKey(S_num_updates)

K_ab == StrKey(<<"a",".","b",".","w","e","i","g","h","t">>)

K_ab_ema == StrKey(S_model_ema \o <<"a","b","w","e","i","g","h","t">>)

K_inner_ema == StrKey(<<"x",".">> \o S_model_ema \o <<"y">>)

K_int == IntKey(5)

K_bad_position_ids == StrKey(S_transformer \o S_embeddings \o S_position_ids)

K_bad_encoder == StrKey(S_transformer \o S_encoder \o <<"w">>)

K_good_encoder == StrKey(S_text_model \o S_encoder \o <<"w">>)

K_bad_norm == StrKey(S_transformer \o S_final_layer_norm \o <<"w">>)

K_bad_twice == StrKey(S_transformer \o S_encoder \o S_transformer \o S_encoder)

T1 == Tensor("float32", << 515 >>)

T2 == Tensor("float32", << 6 >>)

Counter == NonTensor(7)

Canonical == [i \in 1..PosLen |-> 2 * (i - 1)]

PositionValues ==
  {Tensor("int64", Canonical),
   Tensor("int64", [Canonical EXCEPT ![6] = 198]),
   Tensor("int64", [Canonical EXCEPT ![1] = 2, ![77] = 0]),
   Tensor("int32", Canonical),
   Tensor("float32", Canonical),
   Tensor("float32", [Canonical EXCEPT ![6] = 11]),
   Tensor("float16", [Canonical EXCEPT ![6] = 198]),
   Counter}

ConvUniverse ==
  (K_unet :> ({Tensor(d, << 6 >>) : d \in DTypes} \cup {T1, Counter}))
  @@ (K_unet_ema :> {T2, Tensor("float64", << 515 >>), Counter})
  @@ (K_vae :> {T1, Counter})
  @@ (K_num_updates :> {Tensor("int32", << 8 >>), Counter})
  @@ (K_ab :> {T1})
  @@ (K_ab_ema :> {T2})
  @@ (K_inner_ema :> {T1})
  @@ (K_int :> {T1, Counter})
  @@ (K_bad_position_ids :> {Tensor("int64", Canonical)})
  @@ (position_id_key :> {Tensor("int64", Canonical)})

FixUniverse ==
  (K_bad_position_ids :> PositionValues)
  @@ (position_id_key :> PositionValues)
  @@ (K_bad_encoder :> {T1, Counter})
  @@ (K_good_encoder :> {T2})
  @@ (K_bad_norm :> {T1})
  @@ (K_bad_twice :> {T1})
  @@ (K_int :> {T1})
  @@ (K_vae :> {T1})

RECURSIVE Dicts(_, _, _)
Dicts(U, keys, n) ==
  IF n = 0 \/ keys = {} THEN {EmptyDict}
  ELSE LET k == CHOOSE x \in keys : TRUE
       IN  Dicts(U, keys \ {k}, n)
           \cup {Put(m, k, v) : m \in Dicts(U, keys \ {k}, n - 1), v \in U[k]}

Classes(m) == {check_weight_type(k) : k \in {x \in DOMAIN m : x.isstr}}

\* The directive of a subsystem no key of the checkpoint belongs to is never
\* looked up; it is left at the form's default.
ExtraOpts(m) ==
  {f \in [Subsystems -> Directives] :
     \A s \in Subsystems \ Classes(m) : f[s] = "convert"}

AllConvert == [s \in Subsystems |-> "convert"]

\* A checkpoint file: unreadable, or an object that is the weight mapping
\* itself (top), or one that holds it under "state_dict" (inner).
Unwrapped(sd) ==
  [readable |-> TRUE, wrapped |-> FALSE, top |-> sd, inner |-> EmptyDict]

Wrapped(sd) ==
  [readable |-> TRUE, wrapped |-> TRUE, top |-> EmptyDict, inner |-> sd]

Unreadable ==
  [readable |-> FALSE, wrapped |-> FALSE, top |-> EmptyDict, inner |-> EmptyDict]

Files ==
  {Unreadable,
   Wrapped((K_unet :> T1) @@ (K_unet_ema :> T2)),
   Unwrapped((position_id_key :> Counter)),
   Unwrapped((K_int :> T1))}

FormatLists ==
  {<< >>, <<"ckpt">>, <<"safetensors">>, <<"ckpt", "safetensors">>,
   <<"safetensors", "ckpt">>}

-----------------------------------------------------------------------------
(* Specifications *)

\* A whole call of do_convert, from the click to the return or the exception.
Init ==
  /\ pc = "validate"
  /\ model \in {"", "sd-v1", "gone"}
  /\ checkpoint_formats \in FormatLists
  /\ precision \in {"fp32", "fp16"}
  /\ conv_type \in ConvTypes
  /\ extra_opt = AllConvert
  /\ fix_clip \in BOOLEAN
  /\ force_position_id \in BOOLEAN
  /\ file \in Files
  /\ state_dict = EmptyDict
  /\ report = "none"
  /\ broken = {}
  /\ ok = EmptyDict
  /\ fmt_i = 1
  /\ saved = EmptyDict
  /\ output = << >>
  /\ result = "none"
  /\ io = << >>

Next ==
  \/ Validate
  \/ Lookup
  \/ Begin
  \/ load_model
  \/ FixModel
  \/ Convert
  \/ Save
  \/ End

Spec == Init /\ [][Next]_vars

\* The state in which fix_model is entered, for every loaded checkpoint.
Loaded(sd) ==
  /\ pc = "fix"
  /\ model = "sd-v1"
  /\ checkpoint_formats = <<"ckpt">>
  /\ file = Unwrapped(sd)
  /\ state_dict = sd
  /\ report = "none"
  /\ broken = {}
  /\ ok = EmptyDict
  /\ fmt_i = 1
  /\ saved = EmptyDict
  /\ output = << >>
  /\ result = "none"
  /\ io = <<"registry", "begin", "load">>

InitFix ==
  /\ \E sd \in Dicts(FixUniverse, DOMAIN FixUniverse, MaxKeys) : Loaded(sd)
  /\ precision = "fp32"
  /\ conv_type = "disabled"
  /\ extra_opt = AllConvert
  /\ fix_clip \in BOOLEAN
  /\ force_position_id \in BOOLEAN

NextFix == FixModel

SpecFix == InitFix /\ [][NextFix]_vars

InitConv ==
  /\ \E sd \in Dicts(ConvUniverse, DOMAIN ConvUniverse, MaxKeys) :
       /\ Loaded(sd)
       /\ extra_opt \in ExtraOpts(sd)
  /\ precision \in Precisions
  /\ conv_type \in ConvTypes
  /\ fix_clip = FALSE
  /\ force_position_id = FALSE

NextConv ==
  \/ FixModel
  \/ Convert

SpecConv == InitConv /\ [][NextConv]_vars

-----------------------------------------------------------------------------
(* Properties of the selection and conversion (SpecConv) *)

\* The value the loop hands to _hf for key k of the repaired mapping.
EffectiveInput(k) ==
  IF conv_type = "ema-only" /\ EmaKey(k) \in DOMAIN state_dict
  THEN state_dict[EmaKey(k)]
  ELSE state_dict[k]

ExpectedDType(p, d) ==
  IF p = "fp16" /\ d \in {"float32", "float64", "bfloat16"} THEN "float16"
  ELSE IF p = "bf16" /\ d \in {"float32", "float64", "float16"} THEN "bfloat16"
  ELSE d

\* C1: every key of the output whose subsystem directive is "convert" has the
\* dtype the precision table gives for the dtype of its input value: float16
\* under fp16 iff the input is float32, float64 or bfloat16, bfloat16 under
\* bf16 iff the input is float32, float64 or float16, the input dtype
\* otherwise; integer tensors keep their dtype under every precision.
C1_OutputDType ==
  \A k \in DOMAIN ok :
    /\ extra_opt[check_weight_type(k)] = "convert"
         => ok[k].dtype = ExpectedDType(precision, EffectiveInput(k).dtype)
    /\ (extra_opt[check_weight_type(k)] = "convert"
          /\ EffectiveInput(k).dtype \in {"int64", "int32"})
         => ok[k].dtype = EffectiveInput(k).dtype

C1_Witness ==
  /\ pc = "save"
  /\ precision = "fp16"
  /\ \E k1, k2 \in DOMAIN ok :
       /\ extra_opt[check_weight_type(k1)] = "convert"
       /\ extra_opt[check_weight_type(k2)] = "convert"
       /\ EffectiveInput(k1).dtype = "float32" /\ ok[k1].dtype = "float16"
       /\ EffectiveInput(k2).dtype = "int64" /\ ok[k2].dtype = "int64"

\* v is t itself or one of its precision casts.
DerivedFrom(v, t) ==
  \/ v = t
  \/ v = [t EXCEPT !.dtype = "float16",
                   !.data = [i \in DOMAIN t.data |-> RoundSig(t.data[i], 11)]]
  \/ v = [t EXCEPT !.dtype = "bfloat16",
                   !.data = [i \in DOMAIN t.data |-> RoundSig(t.data[i], 8)]]

AbMapping == (K_ab :> T1) @@ (K_ab_ema :> T2)

\* C2 as stated: in ema-only mode {"a.b.weight": T1, "model_ema.abweight": T2}
\* gives an output whose only key is "a.b.weight", holding a value derived
\* from T2; a key without EMA shadow keeps a value derived from its own.
C2_AsStated ==
  (pc = "save" /\ conv_type = "ema-only")
    => /\ (state_dict = AbMapping /\ extra_opt["other"] # "delete")
            => /\ DOMAIN ok = {K_ab}
               /\ DerivedFrom(ok[K_ab], T2)
       /\ \A k \in DOMAIN ok :
            EmaKey(k) \notin DOMAIN state_dict
              => DerivedFrom(ok[k], state_dict[k])

\* C2 amended: the shadow of "a.b.weight" is "model_ema.ight", so that mapping
\* gives only "a.b.weight" with a value derived from T1; the EMA value is
\* substituted for a key that carries a six-character prefix:
\* {"model.diffusion_model.w": V1, "model_ema.diffusion_modelw": V2}, V2 a
\* tensor, gives only "model.diffusion_model.w" with a value derived from V2;
\* a key without EMA shadow keeps a value derived from its own.
C2_EmaSubstitution ==
  (pc = "save" /\ conv_type = "ema-only")
    => /\ (state_dict = AbMapping /\ extra_opt["other"] # "delete")
            => /\ DOMAIN ok = {K_ab}
               /\ DerivedFrom(ok[K_ab], T1)
       /\ (/\ DOMAIN state_dict = {K_unet, K_unet_ema}
           /\ state_dict[K_unet_ema].tensor
           /\ extra_opt["unet"] # "delete")
            => /\ DOMAIN ok = {K_unet}
               /\ DerivedFrom(ok[K_unet], state_dict[K_unet_ema])
       /\ \A k \in DOMAIN ok :
            EmaKey(k) \notin DOMAIN state_dict
              => DerivedFrom(ok[k], state_dict[k])

C2_Witness ==
  /\ pc = "save"
  /\ conv_type = "ema-only"
  /\ state_dict = AbMapping
  /\ precision = "bf16"
  /\ DOMAIN ok = {K_ab}
  /\ ok[K_ab] = Tensor("bfloat16", << 516 >>)

\* The pruning mode hands key k to _hf.
PruningSelects(k) == Selected(state_dict, k) # {}

C4_DeleteRemoves ==
  \A k \in DOMAIN ok : extra_opt[check_weight_type(k)] # "delete"

C4_Witness ==
  /\ pc = "save"
  /\ conv_type = "ema-only"
  /\ extra_opt["unet"] = "delete"
  /\ K_unet \in DOMAIN state_dict
  /\ K_unet_ema \in DOMAIN state_dict
  /\ state_dict[K_unet_ema].tensor
  /\ K_unet \notin DOMAIN ok

\* C7 as stated: in ema-only mode a key without EMA shadow that contains
\* "model_ema." at any position, other than the two kept names, is absent
\* from the output.
C7_AsStated ==
  (pc = "save" /\ conv_type = "ema-only")
    => \A k \in DOMAIN state_dict :
         (/\ k.isstr
          /\ EmaKey(k) \notin DOMAIN state_dict
          /\ Contains(k.s, S_model_ema)
          /\ k.s \notin {S_num_updates, S_decay})
           => k \notin DOMAIN ok

\* C7 amended: ema-only tests the prefix, no-ema the substring: in ema-only
\* mode a key without EMA shadow that starts with "model_ema.", other than
\* the two kept names, is absent from the output; in no-ema mode every key
\* that contains "model_ema." at any position is absent from the output.
C7_PrefixTest ==
  /\ (pc = "save" /\ conv_type = "ema-only")
       => \A k \in DOMAIN state_dict :
            (/\ k.isstr
             /\ EmaKey(k) \notin DOMAIN state_dict
             /\ StartsWith(k.s, S_model_ema)
             /\ k.s \notin {S_num_updates, S_decay})
              => k \notin DOMAIN ok
  /\ (pc = "save" /\ conv_type = "no-ema")
       => \A k \in DOMAIN state_dict :
            Contains(k.s, S_model_ema) => k \notin DOMAIN ok

C7_Witness ==
  /\ pc = "save"
  /\ conv_type = "ema-only"
  /\ extra_opt["other"] = "convert"
  /\ DOMAIN state_dict = {K_ab_ema, K_inner_ema}
  /\ DOMAIN ok = {K_inner_ema}

\* C9: in ema-only mode a key that is no str never aborts the run: the
\* conversion goes on to the save stage.
C9_MalformedKeySkipped ==
  (/\ conv_type = "ema-only"
   /\ \E k \in DOMAIN state_dict : ~k.isstr)
    => pc # "raised"

-----------------------------------------------------------------------------
(* Properties of fix_model (SpecFix) *)

Before == StateDictOf(file)

FixModelDone == pc # "fix"

\* The key with its broken prefix exchanged for the corrected one.
PrefixSwap(k) ==
  LET i == CHOOSE j \in DOMAIN nai_keys : StartsWith(k.s, nai_keys[j][1])
  IN  StrKey(nai_keys[i][2]
             \o SubSeq(k.s, Len(nai_keys[i][1]) + 1, Len(k.s)))

\* The broken prefix of k occurs again behind the prefix.
PrefixRepeats(k) ==
  \E j \in DOMAIN nai_keys :
    /\ StartsWith(k.s, nai_keys[j][1])
    /\ Contains(SubSeq(k.s, Len(nai_keys[j][1]) + 1, Len(k.s)), nai_keys[j][1])

\* Key ka of the repaired mapping holds what key kb of the loaded one held; the
\* position ids are compared only when no flag of fix_model rewrites them.
SameValue(ka, kb) ==
  /\ ka \in DOMAIN state_dict
  /\ \/ state_dict[ka] = Before[kb]
     \/ ka = position_id_key /\ (fix_clip \/ force_position_id)

\* C5 as stated: for every input mapping the key-prefix repair is a pure
\* rename: the number of keys is unchanged, no key starts with a broken
\* prefix, every key that started with one is present under the corrected
\* prefix (its repaired name) with the value the old key held, every other
\* key keeps its value.
C5_AsStated ==
  FixModelDone
    => /\ Cardinality(DOMAIN state_dict) = Cardinality(DOMAIN Before)
       /\ \A k \in DOMAIN state_dict : ~IsBrokenKey(k)
       /\ \A k \in DOMAIN Before :
            IF IsBrokenKey(k) THEN SameValue(NewKey(k), k)
            ELSE SameValue(k, k)

\* The repaired name of k is the repaired name of another key.
SharesRepairedName(k) ==
  \E j \in DOMAIN Before \ {k} : IsBrokenKey(j) /\ NewKey(j) = NewKey(k)

\* The repaired name of some key is the name of another key, repaired or not.
Collides ==
  \E k \in DOMAIN Before :
    /\ IsBrokenKey(k)
    /\ (NewKey(k) \in DOMAIN Before \/ SharesRepairedName(k))

\* C5 amended: afterwards no key starts with a broken prefix; the repaired
\* name of a key is the key with every occurrence of its broken prefix
\* exchanged, which is the prefix swap unless the prefix repeats.  For an input
\* mapping in which no repaired name is the name or the repaired name of
\* another key, the repair is a pure rename: same number of keys, every key
\* that started with a broken prefix present under its repaired name with the
\* old value, every other key with its own value.  When the repaired name of
\* a key is already a key of the mapping (and of no other repaired key), that
\* entry is overwritten with the renamed value and the number of keys
\* decreases.
C5_Rename ==
  FixModelDone
    => /\ \A k \in DOMAIN state_dict : ~IsBrokenKey(k)
       /\ \A k \in DOMAIN Before :
            (IsBrokenKey(k) /\ ~PrefixRepeats(k)) => NewKey(k) = PrefixSwap(k)
       /\ ~Collides
            => /\ Cardinality(DOMAIN state_dict) = Cardinality(DOMAIN Before)
               /\ \A k \in DOMAIN Before :
                    IF IsBrokenKey(k) THEN SameValue(NewKey(k), k)
                    ELSE SameValue(k, k)
       /\ \A k \in DOMAIN Before :
            (/\ IsBrokenKey(k)
             /\ NewKey(k) \in DOMAIN Before
             /\ ~SharesRepairedName(k))
              => /\ Cardinality(DOMAIN state_dict) < Cardinality(DOMAIN Before)
                 /\ SameValue(NewKey(k), k)

C5_Witness ==
  /\ pc = "convert"
  /\ ~fix_clip /\ ~force_position_id
  /\ DOMAIN Before = {K_bad_position_ids, K_bad_norm}
  /\ DOMAIN state_dict = {position_id_key, PrefixSwap(K_bad_norm)}
  /\ state_dict[position_id_key] = Before[K_bad_position_ids]

\* The position ids as the key-prefix repair leaves them, none or one.
PositionIdsRepaired ==
  IF \E k \in DOMAIN Before : IsBrokenKey(k) /\ PrefixSwap(k) = position_id_key
  THEN {Before[k] : k \in {x \in DOMAIN Before :
                             IsBrokenKey(x) /\ PrefixSwap(x) = position_id_key}}
  ELSE {Before[k] : k \in {position_id_key} \cap DOMAIN Before}

Int64Values(t) == [i \in DOMAIN t.data |-> (t.data[i] \div 2) * 2]

Differing(t) == {i \in 0..76 : Int64Values(t)[i + 1] # 2 * i}

AsInt64(t) == [t EXCEPT !.dtype = "int64", !.data = Int64Values(t)]

\* C6 as stated: with fix-clip on and the key present, fix_model leaves the
\* position-id tensor unchanged and reports a no-op when its int64 values are
\* 0..76, else stores the canonical sequence and reports the differing
\* indices; with fix-clip off, or the key absent, nothing is replaced and no
\* error is raised.
C6_AsStated ==
  FixModelDone
    => /\ \A t \in PositionIdsRepaired :
            t.tensor
              => IF fix_clip
                 THEN IF Differing(t) = {}
                      THEN /\ state_dict[position_id_key] = t
                           /\ report = "fine"
                      ELSE /\ state_dict[position_id_key] = Correct
                           /\ report = "fixed"
                           /\ broken = Differing(t)
                 ELSE /\ Int64Values(state_dict[position_id_key]) = Int64Values(t)
                      /\ report = "none"
       /\ (~fix_clip \/ PositionIdsRepaired = {}) => pc # "raised"

\* C6 amended: with fix-clip on and a [1, 77] tensor under the key, fix_model
\* leaves it as the force-position-id step left it (untouched with that flag
\* off, cast to int64 with it on) and reports a no-op when its int64 values
\* are 0..76, else stores the canonical sequence and reports exactly the
\* differing indices; with fix-clip off, or the key absent, the canonical
\* sequence is never stored, and no error is raised unless force-position-id
\* is on and the value under the key is no tensor.
C6_FixClip ==
  FixModelDone
    => /\ \A t \in PositionIdsRepaired :
            t.tensor
              => LET kept == IF force_position_id THEN AsInt64(t) ELSE t
                 IN  /\ pc = "convert"
                     /\ IF fix_clip
                        THEN IF Differing(t) = {}
                             THEN /\ state_dict[position_id_key] = kept
                                  /\ report = "fine"
                                  /\ broken = {}
                             ELSE /\ state_dict[position_id_key] = Correct
                                  /\ report = "fixed"
                                  /\ broken = Differing(t)
                        ELSE /\ state_dict[position_id_key] = kept
                             /\ report = "none"
       /\ PositionIdsRepaired = {}
            => /\ pc = "convert"
               /\ position_id_key \notin DOMAIN state_dict
               /\ report = "none"
       /\ \A t \in PositionIdsRepaired :
            ~t.tensor => (pc = "raised" <=> (fix_clip \/ force_position_id))

C6_Witness ==
  /\ pc = "convert"
  /\ fix_clip
  /\ K_bad_position_ids \in DOMAIN Before
  /\ Before[K_bad_position_ids].dtype = "float16"
  /\ state_dict[position_id_key] = Correct
  /\ report = "fixed"
  /\ broken = {5}

-----------------------------------------------------------------------------
(* Properties of a whole call (Spec) *)

RECURSIVE Count(_, _)
Count(log, e) ==
  IF log = << >> THEN 0
  ELSE (IF Head(log) = e THEN 1 ELSE 0) + Count(Tail(log), e)

\* C8: with an empty model identifier or an empty list of formats the call
\* returns the error message before any I/O: nothing is looked up, begun,
\* loaded or written; the model identifier is checked first.
C8_ValidationFirst ==
  (model = "" \/ Len(checkpoint_formats) = 0)
    => /\ pc \in {"validate", "returned"}
       /\ io = << >>
       /\ saved = EmptyDict
       /\ state_dict = EmptyDict
       /\ pc = "returned"
            => result = IF model = "" THEN ErrNoModel ELSE ErrNoFormat

C8_Witness ==
  /\ pc = "returned"
  /\ model = ""
  /\ Len(checkpoint_formats) = 0
  /\ result = ErrNoModel
  /\ io = << >>

\* C10: when the call is over, by return or by exception, end() has been
\* called exactly as often as begin().
C10_BeginEndPaired ==
  pc \in {"returned", "raised"} => Count(io, "end") = Count(io, "begin")

====
